---------------------------- MODULE Spec2Model ----------------------------
(***************************************************************************)
(* A model of the waveform streaming code of GrupoFWP:                     *)
(*   wavemaker.py    given_waveform, Wave.__init__, Wave.evaluate          *)
(*   pyaudiowave.py  PyAudioWave.__init__, create_time, resolve_nchannels, *)
(*                   eval_wave, yield_a_bit, write_generator, encode,      *)
(*                   write_signal                                          *)
(*   wave.py         given_waveform, function_creator, frequency_sweep     *)
(*   Borradores/gen.py        yield_chunks                                 *)
(*   fwp_lab_instruments.py   Osci.measure, Osci.re_config_measure,        *)
(*                            Gen.output, Gen.config_output                *)
(*                                                                         *)
(* Specifications.  Spec is the streaming generator of pyaudiowave.py,     *)
(* SpecWave the Wave object and its evaluate calls, SpecSignal             *)
(* write_signal and encode, SpecSweep the frequency sweep of wave.py,      *)
(* SpecChunks the chunk generator of gen.py, SpecOsci the oscilloscope     *)
(* and SpecGen the function generator of fwp_lab_instruments.py.           *)
(*                                                                         *)
(* Numbers.  Frequencies, sampling rates, buffer sizes and durations are   *)
(* small integers.  Time instants and phases are exact rationals <<n, d>>  *)
(* in lowest terms.  np.linspace is given a float sample count by          *)
(* create_time; it is modelled as the numpy the code was written for does  *)
(* it, by truncating the count to an integer.                              *)
(*                                                                         *)
(* Samples.  sin, scipy.signal.sawtooth and scipy.signal.square are not    *)
(* computed: a sample is the record of the library call that produces it,  *)
(* [fn, x, p, a] = a * fn(2*pi*x, p), with x the phase in cycles           *)
(* (time * frequency) and p the shape parameter (<<>> when there is none). *)
(*                                                                         *)
(* Python values.  None is <<>> and a number d is <<d>> where both can     *)
(* occur.  A wave argument is [tuple |-> isinstance(wave, tuple), w |->    *)
(* the wave or waves].                                                     *)
(***************************************************************************)
EXTENDS Integers, Sequences, FiniteSets, TLC

\* ------------------------------------------------------------------ bounds
MaxFreq == 2
MaxRate == 5
MaxBufferSize == 2
MaxBuffersPerArray == 2
MaxDuration == 1
MaxAmp == 1
MaxCalls == 2
MaxPeriods == 2
MaxSteps == 2
MaxLevel == 2
MaxSilence == 1
MaxSweepRate == 3
MaxArr == 4
MaxChunk == 3

Frequencies == 0..MaxFreq
SamplingRates == 4..MaxRate
BufferSizes == 1..MaxBufferSize
BuffersPerArray == 1..MaxBuffersPerArray
Amplitudes == 1..MaxAmp
None == <<>>
Durations == {None} \cup {<<d>> : d \in (-1)..MaxDuration}
\* Names a caller passes to Wave(); 'sum', which fwp_script.py passes, is not
\* one that given_waveform knows.
WaveformNames == {"sine", "square", "custom", "sum"}
Slots == {1, 2}

\* --------------------------------------------------------------- rationals
RECURSIVE GCD(_, _)
GCD(a, b) == IF b = 0 THEN a ELSE GCD(b, a % b)

Abs(n) == IF n < 0 THEN -n ELSE n

\* n/d in lowest terms, d > 0
Rat(n, d) ==
    LET g == GCD(Abs(n), Abs(d))
        s == IF d < 0 THEN -1 ELSE 1
    IN  <<(s * n) \div g, (s * d) \div g>>

RatMul(r, k) == Rat(r[1] * k, r[2])

\* ------------------------------------------------------------ wavemaker.py
given_waveform(input_waveform) ==
    CASE input_waveform = "sine"         -> "create_sine"
      [] input_waveform = "sawtoothup"   -> "create_sawtooth_up"
      [] input_waveform = "sawtoothdown" -> "create_sawtooth_down"
      [] input_waveform = "ramp"         -> "create_sawtooth_up"
      [] input_waveform = "sawtooth"     -> "create_sawtooth_up"
      [] input_waveform = "triangular"   -> "create_triangular"
      [] input_waveform = "square"       -> "create_square"
      [] input_waveform = "custom"       -> "create_custom"
      [] OTHER                           -> "wrong_input"

\* Wave.__init__: the object it leaves behind.  It has no failing path.
Wave(waveform, frequency, amplitude, custom) ==
    [frequency  |-> frequency,
     amplitude  |-> amplitude,
     waveform   |-> given_waveform(waveform),
     customfunc |-> custom]

create_sine(time, freq) ==
    [k \in DOMAIN time |-> [fn |-> "sin", x |-> RatMul(time[k], freq), p |-> <<>>, a |-> 1]]

create_ramps(time, freq, type_of_ramp) ==
    [k \in DOMAIN time |->
        [fn |-> "sawtooth", x |-> RatMul(time[k], freq), p |-> type_of_ramp, a |-> 1]]

\* A variant that reads the widths as create_ramps's docstring lists them
\* (0 for the positive slope)
create_sawtooth_up_as_documented(time, freq) == create_ramps(time, freq, <<0, 1>>)

create_sawtooth_up(time, freq) == create_ramps(time, freq, <<1, 1>>)

create_sawtooth_down(time, freq) == create_ramps(time, freq, <<0, 1>>)

create_triangular(time, freq) == create_ramps(time, freq, <<1, 2>>)

create_square(time, freq, dutycycle) ==
    [k \in DOMAIN time |->
        [fn |-> "square", x |-> RatMul(time[k], freq), p |-> dutycycle, a |-> 1]]

\* Wave.evaluate(time) as eval_wave calls it, with no extra arguments:
\* self.waveform(time, self.frequency) * self.amplitude.  wrong_input raises
\* TypeError; create_custom is called without its custom_func argument
\* (self.customfunc is never passed on), which is a TypeError too.
evaluate_raises(self) == self.waveform \in {"wrong_input", "create_custom"}

evaluate(self, time) ==
    LET f == self.frequency
        wave == CASE self.waveform = "create_sine"          -> create_sine(time, f)
                  [] self.waveform = "create_sawtooth_up"   -> create_sawtooth_up(time, f)
                  [] self.waveform = "create_sawtooth_down" -> create_sawtooth_down(time, f)
                  [] self.waveform = "create_triangular"    -> create_triangular(time, f)
                  [] self.waveform = "create_square"        -> create_square(time, f, <<1, 2>>)
    IN  [k \in DOMAIN wave |-> [wave[k] EXCEPT !.a = @ * self.amplitude]]

\* Extra positional arguments of evaluate: a number or a function
Num(r) == [kind |-> "num", v |-> r]
Fn(name) == [kind |-> "fn", v |-> name]

\* create_custom(time, freq, custom_func, *args): custom_func(time, freq, *args)
create_custom(time, freq, custom_func, args) ==
    [k \in DOMAIN time |->
        [fn |-> custom_func, x |-> RatMul(time[k], freq), p |-> args, a |-> 1]]

\* Wave.evaluate(time, *args): self.waveform(time, self.frequency, *args) *
\* self.amplitude.  The sine and the ramps take *args and drop them;
\* create_square takes args[0] as its duty cycle and create_custom takes
\* args[0] as the function to call, each a TypeError when it is of the
\* other kind; create_custom without it and wrong_input are TypeErrors.
evaluate_args_raises(self, args) ==
    CASE self.waveform = "wrong_input"   -> TRUE
      [] self.waveform = "create_custom" -> args = <<>> \/ args[1].kind # "fn"
      [] self.waveform = "create_square" -> args # <<>> /\ args[1].kind # "num"
      [] OTHER                           -> FALSE

evaluate_args(self, time, args) ==
    LET f == self.frequency
        scaled(wave) == [k \in DOMAIN wave |-> [wave[k] EXCEPT !.a = @ * self.amplitude]]
    IN  CASE self.waveform = "create_square" /\ args # <<>> ->
                scaled(create_square(time, f, args[1].v))
          [] self.waveform = "create_custom" ->
                scaled(create_custom(time, f, args[1].v, Tail(args)))
          [] OTHER -> evaluate(self, time)

\* What a call gives its caller: the value returned, or the exception
Returned(value) == [exc |-> "", value |-> value]
Raised(e) == [exc |-> e, value |-> <<>>]

Wave_evaluate(self, time, args) ==
    IF evaluate_args_raises(self, args)
    THEN Raised("TypeError")
    ELSE Returned(evaluate_args(self, time, args))

\* ---------------------------------------------------------- pyaudiowave.py
VARIABLES
    waves,              \* the caller's Wave objects: slot -> None or <<Wave>>
    sampling_rate,      \* PyAudioWave.sampling_rate
    buffer_size,        \* PyAudioWave.buffer_size
    nchannels,          \* PyAudioWave.nchannels
    pc,                 \* the generator object of write_generator:
                        \*   "none" (no generator), "created" (body not
                        \*   started), "suspended" (at the yield of
                        \*   yield_a_bit), "done" (returned), "raised"
    arg,                \* write_generator's wave argument
    duration,           \* write_generator's duration argument
    buffers_per_array,  \* write_generator's buffers_per_array argument
    wave,               \* local: the result of resolve_nchannels
    signal,             \* local: rows of samples, one row per evaluated wave
    yield_signal,       \* local
    i,                  \* yield_a_bit's loop index
    exc,                \* the exception the generator raised
    out,                \* the buffers pulled so far, in order
    calls,              \* the evaluate calls made on waves[1] since it was
                        \*   built: [time, args, ret], in order
    out_data,           \* what write_signal returned
    sweep,              \* the generator object of wave.py's frequency_sweep
    chunks,             \* the generator object of gen.py's yield_chunks
    osci,               \* the Osci object, with the oscilloscope it talks to
    gen                 \* the Gen object, with the commands its generator got

vars == <<waves, sampling_rate, buffer_size, nchannels, pc, arg, duration,
          buffers_per_array, wave, signal, yield_signal, i, exc, out,
          calls, out_data, sweep, chunks, osci, gen>>

session == <<sampling_rate, buffer_size, nchannels>>
frame == <<arg, duration, buffers_per_array, wave, signal, yield_signal, i, exc, out>>

Single(w) == [tuple |-> FALSE, w |-> <<w>>]
Tuple(ws) == [tuple |-> TRUE, w |-> ws]

\* create_time(wave, periods_per_chunk), for wave.frequency # 0:
\* np.linspace(0, period * ppc, num = period * ppc * sampling_rate,
\* endpoint=False), the sample count truncated to an integer.
create_time_num(self_sampling_rate, w, periods_per_chunk) ==
    (periods_per_chunk * self_sampling_rate) \div w.frequency

create_time(self_sampling_rate, w, periods_per_chunk) ==
    LET num == create_time_num(self_sampling_rate, w, periods_per_chunk)
    IN  [k \in 1..num |-> Rat((k - 1) * periods_per_chunk, w.frequency * num)]

\* A variant that returns the lone wave as a 1-tuple whatever the channel count.
resolve_nchannels_single(self_nchannels, w) ==
    IF ~w.tuple THEN Tuple(<<w.w[1]>>) ELSE w

resolve_nchannels(self_nchannels, w) ==
    IF self_nchannels = 1
    THEN IF ~w.tuple THEN Tuple(<<w.w[1]>>) ELSE w
    ELSE IF ~w.tuple THEN Tuple(<<w.w[1], w.w[1]>>) ELSE w

\* eval_wave: the waves it evaluates, in order
eval_wave_rows(self_nchannels, ws) ==
    IF self_nchannels = 1 THEN <<ws.w[1]>> ELSE ws.w

eval_wave_raises(self_nchannels, ws) ==
    \E k \in DOMAIN eval_wave_rows(self_nchannels, ws) :
        evaluate_raises(eval_wave_rows(self_nchannels, ws)[k])

eval_wave(self_nchannels, ws, time) ==
    LET rows == eval_wave_rows(self_nchannels, ws)
    IN  [k \in DOMAIN rows |-> evaluate(rows[k], time)]

\* numpy's signal[:, a:b] on rows of equal length (a, b >= 0; the slice clips)
Columns(sig, a, b) ==
    [r \in DOMAIN sig |-> SubSeq(sig[r], a + 1, IF b < Len(sig[r]) THEN b ELSE Len(sig[r]))]

\* yield_a_bit: the number of chunks, len(signal) // buffer_size, where
\* len(signal) is the number of rows of the array; and chunk k.
yield_a_bit_count(self_buffer_size, sig) == Len(sig) \div self_buffer_size

yield_a_bit_chunk(self_buffer_size, sig, k) ==
    Columns(sig, self_buffer_size * k, self_buffer_size * (k + 1))

Init ==
    /\ waves = [s \in Slots |-> None]
    /\ sampling_rate \in SamplingRates
    /\ buffer_size \in BufferSizes
    /\ nchannels \in {1, 2}
    /\ pc = "none"
    /\ arg = None
    /\ duration = None
    /\ buffers_per_array = 0
    /\ wave = None
    /\ signal = <<>>
    /\ yield_signal = <<>>
    /\ i = 0
    /\ exc = ""
    /\ out = <<>>
    /\ calls = <<>>
    /\ out_data = None
    /\ sweep = [pc |-> "none"]
    /\ chunks = [pc |-> "none"]
    /\ osci = None
    /\ gen = None

\* waves[s] = Wave(waveform, frequency, amplitude, custom), while the caller
\* has no stream open
WaveInit(s, waveform, frequency, amplitude, custom) ==
    /\ pc = "none"
    /\ waves' = [waves EXCEPT ![s] = <<Wave(waveform, frequency, amplitude, custom)>>]
    /\ UNCHANGED <<session, pc, frame>>

\* g = write_generator(w, d, bpa): a generator object whose body has not
\* started
WriteGenerator(w, d, bpa) ==
    /\ pc = "none"
    /\ pc' = "created"
    /\ arg' = w
    /\ duration' = d
    /\ buffers_per_array' = bpa
    /\ UNCHANGED <<waves, session, wave, signal, yield_signal, i, exc, out>>

\* The generator raises e
Raise(e) ==
    /\ pc' = "raised"
    /\ exc' = e

\* The while-True loop of the duration-is-None branch, at index k of
\* yield_a_bit(ys): yield chunk k, or, the chunks exhausted, go on to
\* np.append((yield_signal[last_place:], signal)), which is a call without
\* its second argument: TypeError.
YieldABit(ys, k) ==
    IF k < yield_a_bit_count(buffer_size, ys)
    THEN /\ pc' = "suspended"
         /\ i' = k
         /\ out' = Append(out, yield_a_bit_chunk(buffer_size, ys, k))
         /\ exc' = exc
    ELSE /\ Raise("TypeError")
         /\ UNCHANGED <<i, out>>

\* The first next(g): the body of write_generator up to its first yield
GenStart ==
    /\ pc = "created"
    /\ LET rw == resolve_nchannels(nchannels, arg)
           w0 == rw.w[1]
           required_periods == (buffer_size * w0.frequency) \div sampling_rate + 1
           time == create_time(sampling_rate, w0, required_periods * buffers_per_array)
           sig == eval_wave(nchannels, rw, time)
       IN  /\ wave' = rw
           /\ IF w0.frequency = 0
              THEN \* create_time: period = 1/wave.frequency
                   /\ Raise("ZeroDivisionError")
                   /\ UNCHANGED <<signal, yield_signal, i, out>>
              ELSE IF eval_wave_raises(nchannels, rw)
              THEN /\ Raise("TypeError")
                   /\ UNCHANGED <<signal, yield_signal, i, out>>
              ELSE /\ signal' = sig
                   /\ yield_signal' = sig
                   /\ IF duration = None
                      THEN YieldABit(sig, 0)
                      ELSE \* elif duration < len(signal) / self.sampling_frequency:
                           \* the object has no attribute sampling_frequency
                           /\ Raise("AttributeError")
                           /\ UNCHANGED <<i, out>>
    /\ UNCHANGED <<waves, session, arg, duration, buffers_per_array>>

\* A later next(g): resume after the yield of yield_a_bit
GenResume ==
    /\ pc = "suspended"
    /\ YieldABit(yield_signal, i + 1)
    /\ UNCHANGED <<waves, session, arg, duration, buffers_per_array, wave, signal, yield_signal>>

\* The caller drops the generator
Discard ==
    /\ pc \in {"created", "suspended", "done", "raised"}
    /\ pc' = "none"
    /\ arg' = None
    /\ duration' = None
    /\ buffers_per_array' = 0
    /\ wave' = None
    /\ signal' = <<>>
    /\ yield_signal' = <<>>
    /\ i' = 0
    /\ exc' = ""
    /\ out' = <<>>
    /\ UNCHANGED <<waves, session>>

\* The wave arguments the caller forms from its Wave objects: the first
\* alone, or the tuple of the two
WaveArgs ==
    (IF waves[1] # None THEN {Single(waves[1][1])} ELSE {})
    \cup (IF waves[1] # None /\ waves[2] # None
          THEN {Tuple(<<waves[1][1], waves[2][1]>>)}
          ELSE {})

Next ==
    /\ \/ \E s \in Slots, n \in WaveformNames, f \in Frequencies, a \in Amplitudes :
             WaveInit(s, n, f, a, "None")
       \/ \E w \in WaveArgs, d \in Durations, bpa \in BuffersPerArray :
             WriteGenerator(w, d, bpa)
       \/ GenStart
       \/ GenResume
       \/ Discard
    /\ UNCHANGED <<calls, out_data, sweep, chunks, osci, gen>>

Spec == Init /\ [][Next]_vars

\* ------------------------------------------------ the Wave object alone
\* Every name of given_waveform's switcher, and one it does not have
AllWaveformNames ==
    {"sine", "sawtoothup", "sawtoothdown", "ramp", "sawtooth", "triangular",
     "square", "custom", "sum"}

\* The custom argument of Wave(): a function goes with 'custom' only
CustomFuncs(n) == IF n = "custom" THEN {"None", "f"} ELSE {"None"}

\* Time vectors a caller evaluates on
TimeVectors == {[k \in 1..n |-> Rat(k - 1, r)] : n \in 1..2, r \in SamplingRates}

ExtraArgs == {<<>>, <<Num(<<1, 4>>)>>, <<Fn("f")>>}

\* No stream: the PyAudioWave object plays no part
InitWave ==
    /\ Init
    /\ sampling_rate = MaxRate
    /\ buffer_size = 1
    /\ nchannels = 1

\* A variant of evaluate that keeps a running gain in the object
WaveEvaluateInPlace(time, args) ==
    /\ waves[1] # None
    /\ Len(calls) < MaxCalls
    /\ calls' = Append(calls, [time |-> time, args |-> args,
                               ret |-> Wave_evaluate(waves[1][1], time, args)])
    /\ waves' = [waves EXCEPT ![1] = <<[waves[1][1] EXCEPT !.amplitude = @ + 1]>>]
    /\ UNCHANGED <<session, pc, frame, out_data, sweep, chunks, osci, gen>>

\* waves[1].evaluate(time, *args): nothing of the object is assigned
WaveEvaluate(time, args) ==
    /\ waves[1] # None
    /\ Len(calls) < MaxCalls
    /\ calls' = Append(calls, [time |-> time, args |-> args,
                               ret |-> Wave_evaluate(waves[1][1], time, args)])
    /\ UNCHANGED <<waves, session, pc, frame, out_data, sweep, chunks, osci, gen>>

\* waves[1] = Wave(...): a new object, no call made on it yet
WaveNew(n, f, a, c) ==
    /\ WaveInit(1, n, f, a, c)
    /\ calls' = <<>>
    /\ UNCHANGED <<out_data, sweep, chunks, osci, gen>>

NextWave ==
    \/ \E n \in AllWaveformNames, f \in Frequencies, a \in Amplitudes :
          \E c \in CustomFuncs(n) : WaveNew(n, f, a, c)
    \/ \E t \in TimeVectors, a \in ExtraArgs : WaveEvaluate(t, a)

SpecWave == InitWave /\ [][NextWave]_vars

\* ------------------------------------------- write_signal and encode
PeriodsPerChunk == 1..MaxPeriods

\* np.transpose of a two-dimensional array of at least one row
Transpose(sig) == [k \in 1..Len(sig[1]) |-> [r \in 1..Len(sig) |-> sig[r][k]]]

\* ndarray.flatten(): the rows one after the other
RECURSIVE Flatten(_)
Flatten(rows) == IF rows = <<>> THEN <<>> ELSE Head(rows) \o Flatten(Tail(rows))

\* astype(np.float32) of one sample: the sample narrowed to 32 bits
float32(sample) == [f32 |-> sample]

\* A variant that flattens the signal as it comes
encode_as_is(self_nchannels, sig) ==
    LET interleaved == Flatten(sig)
    IN  [k \in DOMAIN interleaved |-> float32(interleaved[k])]

encode(self_nchannels, sig) ==
    LET sg == IF self_nchannels = 2 THEN Transpose(sig) ELSE sig
        interleaved == Flatten(sg)
    IN  [k \in DOMAIN interleaved |-> float32(interleaved[k])]

\* out_data = write_signal(w, periods_per_chunk)
WriteSignal(w, periods_per_chunk) ==
    /\ pc = "none"
    /\ arg' = w
    /\ LET rw == resolve_nchannels(nchannels, w)
           w0 == rw.w[1]
           time == create_time(sampling_rate, w0, periods_per_chunk)
           sig == eval_wave(nchannels, rw, time)
       IN  /\ wave' = rw
           /\ IF w0.frequency = 0
              THEN /\ Raise("ZeroDivisionError")
                   /\ UNCHANGED <<signal, out_data>>
              ELSE IF eval_wave_raises(nchannels, rw)
              THEN /\ Raise("TypeError")
                   /\ UNCHANGED <<signal, out_data>>
              ELSE /\ signal' = sig
                   /\ out_data' = encode(nchannels, sig)
                   /\ pc' = "returned"
                   /\ exc' = exc
    /\ UNCHANGED <<waves, session, duration, buffers_per_array, yield_signal, i, out,
                   calls, sweep, chunks, osci, gen>>

\* The caller drops what write_signal gave
DropSignal ==
    /\ pc \in {"returned", "raised"}
    /\ pc' = "none"
    /\ arg' = None
    /\ wave' = None
    /\ signal' = <<>>
    /\ exc' = ""
    /\ out_data' = None
    /\ UNCHANGED <<waves, session, duration, buffers_per_array, yield_signal, i, out,
                   calls, sweep, chunks, osci, gen>>

NextSignal ==
    \/ /\ \E s \in Slots, n \in WaveformNames, f \in Frequencies, a \in Amplitudes :
             WaveInit(s, n, f, a, "None")
       /\ UNCHANGED <<calls, out_data, sweep, chunks, osci, gen>>
    \/ \E w \in WaveArgs, ppc \in PeriodsPerChunk : WriteSignal(w, ppc)
    \/ DropSignal

SpecSignal == Init /\ [][NextSignal]_vars

\* ------------------------------------------------- wave.py: frequency_sweep
\* Python values of the sweep's arguments: an int, a float, a list of numbers,
\* an array of frequencies, a tuple
PyInt(v) == [kind |-> "int", v |-> v]
PyFloat(v) == [kind |-> "float", v |-> v]
PyList(s) == [kind |-> "list", v |-> s]
PyArray(s) == [kind |-> "array", v |-> s]
PyTuple(s) == [kind |-> "tuple", v |-> s]

SeqsUpTo(S, n) == UNION {[1..m -> S] : m \in 1..n}

Levels == 1..MaxLevel
Silences == 0..MaxSilence
SweepRates == 2..MaxSweepRate
SweepWaveforms == {"sine", "square", "sawtooth"}

\* amplitude and duration_per_freq: the default 1, a float, a list
LevelArgs ==
    {PyInt(1)} \cup {PyFloat(v) : v \in Levels}
               \cup {PyList(l) : l \in SeqsUpTo(Levels, MaxSteps)}

\* silence_between_freq: the default 0, a float, a list
SilenceArgs ==
    {PyInt(0)} \cup {PyFloat(v) : v \in Silences}
               \cup {PyList(l) : l \in SeqsUpTo(Silences, MaxSteps)}

\* freqs_to_sweep: an array of frequencies, or a (start, stop, step) tuple
FreqArgs ==
    {PyArray(l) : l \in SeqsUpTo(1..MaxFreq, MaxSteps)}
        \cup {PyTuple(<<1, MaxFreq + 1, 1>>), PyTuple(<<1, MaxFreq>>)}

\* wave.py's own switcher: it has no 'sawtooth' key, and its default is a
\* function of no argument
wave_given_waveform(input_waveform) ==
    CASE input_waveform = "sine"         -> "create_sine"
      [] input_waveform = "sawtoothup"   -> "create_sawtooth_up"
      [] input_waveform = "sawtoothdown" -> "create_sawtooth_down"
      [] input_waveform = "ramp"         -> "create_sawtooth_up"
      [] input_waveform = "triangular"   -> "create_triangular"
      [] input_waveform = "square"       -> "create_square"
      [] input_waveform = "custom"       -> "create_custom"
      [] OTHER                           -> "lambda"

\* np.arange(samplig_freq * duration) / samplig_freq
function_creator_time(dur, samplig_freq) ==
    LET n == IF samplig_freq * dur > 0 THEN samplig_freq * dur ELSE 0
    IN  [j \in 1..n |-> Rat(j - 1, samplig_freq)]

\* func(time, freq): the default function takes no argument and create_custom
\* takes three, a TypeError either way
function_creator_raises(waveform) ==
    wave_given_waveform(waveform) \in {"lambda", "create_custom"}

function_creator(waveform, freq, dur, amp, samplig_freq) ==
    LET time == function_creator_time(dur, samplig_freq)
        func == wave_given_waveform(waveform)
        wv == CASE func = "create_sine"          -> create_sine(time, freq)
                [] func = "create_sawtooth_up"   -> create_sawtooth_up(time, freq)
                [] func = "create_sawtooth_down" -> create_sawtooth_down(time, freq)
                [] func = "create_triangular"    -> create_triangular(time, freq)
                [] func = "create_square"        -> create_square(time, freq, <<1, 2>>)
    IN  [j \in DOMAIN wv |-> [wv[j] EXCEPT !.a = @ * amp]]

\* if isinstance(x, float): x = [x] * N_freqs
broadcast(x, N_freqs) ==
    IF x.kind = "float" THEN PyList([j \in 1..N_freqs |-> x.v]) ELSE x

Min(S) == CHOOSE m \in S : \A n \in S : m <= n

\* gen = frequency_sweep(...): the generator object; its body has not run
FrequencySweep(freqs_to_sweep, amplitude, waveform, duration_per_freq, silence_between_freq, sampling_freq) ==
    /\ sweep.pc = "none"
    /\ sweep' = [pc                   |-> "created",
                 freqs_to_sweep       |-> freqs_to_sweep,
                 amplitude            |-> amplitude,
                 waveform             |-> waveform,
                 duration_per_freq    |-> duration_per_freq,
                 silence_between_freq |-> silence_between_freq,
                 sampling_freq        |-> sampling_freq,
                 zip                  |-> <<>>,
                 k                    |-> 0,
                 out                  |-> <<>>,
                 exc                  |-> ""]
    /\ UNCHANGED <<waves, session, pc, frame, calls, out_data, chunks, osci, gen>>

SweepRaise(e) == sweep' = [sweep EXCEPT !.pc = "raised", !.exc = e]

\* One turn of the for loop over zip(freqs_to_sweep, amplitude,
\* duration_per_freq, silence_between_freq), unpacked as
\* freq, duration, amp, silence
SweepStep(z, k) ==
    IF k > Min({Len(z[n]) : n \in 1..4})
    THEN sweep' = [sweep EXCEPT !.pc = "done", !.zip = z, !.k = k]
    ELSE LET freq == z[1][k]
             dur == z[2][k]
             amp == z[3][k]
         IN  IF function_creator_raises(sweep.waveform)
             THEN sweep' = [sweep EXCEPT !.pc = "raised", !.exc = "TypeError",
                                         !.zip = z, !.k = k]
             ELSE sweep' = [sweep EXCEPT
                               !.pc = "suspended", !.zip = z, !.k = k,
                               !.out = Append(@, function_creator(sweep.waveform, freq,
                                                   dur, amp, sweep.sampling_freq))]

\* next(gen)
SweepNext ==
    /\ sweep.pc \in {"created", "suspended"}
    /\ IF sweep.pc = "suspended"
       THEN SweepStep(sweep.zip, sweep.k + 1)
       ELSE IF sweep.freqs_to_sweep.kind = "tuple"
       THEN IF Len(sweep.freqs_to_sweep.v) # 3
            THEN SweepRaise("ValueError")
            ELSE SweepRaise("AttributeError")
       ELSE LET N_freqs == Len(sweep.freqs_to_sweep.v)
                amplitude == broadcast(sweep.amplitude, N_freqs)
                duration_per_freq == broadcast(sweep.duration_per_freq, N_freqs)
                silence_between_freq == broadcast(sweep.silence_between_freq, N_freqs)
            IN  IF "int" \in {amplitude.kind, duration_per_freq.kind,
                              silence_between_freq.kind}
                THEN SweepRaise("TypeError")
                ELSE SweepStep(<<sweep.freqs_to_sweep.v, amplitude.v,
                                 duration_per_freq.v, silence_between_freq.v>>, 1)
    /\ UNCHANGED <<waves, session, pc, frame, calls, out_data, chunks, osci, gen>>

\* The caller drops the generator
SweepDrop ==
    /\ sweep.pc \in {"done", "raised"}
    /\ sweep' = [pc |-> "none"]
    /\ UNCHANGED <<waves, session, pc, frame, calls, out_data, chunks, osci, gen>>

NextSweep ==
    \/ /\ sweep.pc = "none"
       /\ \E f \in FreqArgs, a \in LevelArgs, w \in SweepWaveforms, d \in LevelArgs,
             s \in SilenceArgs, sf \in SweepRates : FrequencySweep(f, a, w, d, s, sf)
    \/ SweepNext
    \/ SweepDrop

SpecSweep == InitWave /\ [][NextSweep]_vars

\* ------------------------------------------------ gen.py: yield_chunks
Arrays == UNION {[1..n -> {0, 1}] : n \in 0..MaxArr}
ChunkSizes == 1..MaxChunk

\* the guard before the loop, taken the other way round at the boundary
yield_chunks_raises_at_equal(larr, chunk_size) == larr <= chunk_size

\* if larr < chunk_size: raise ValueError
yield_chunks_raises(larr, chunk_size) == larr < chunk_size

\* arr[a:b] with 0 <= a <= b <= len(arr)
Slice(arr, a, b) == SubSeq(arr, a + 1, b)

\* g = yield_chunks(arr, chunk_size): the generator object; its body has not
\* run
YieldChunks(arr, chunk_size) ==
    /\ chunks.pc = "none"
    /\ chunks' = [pc         |-> "created",
                  arr        |-> arr,
                  chunk_size |-> chunk_size,
                  cursor     |-> 0,
                  out        |-> <<>>,
                  exc        |-> ""]
    /\ UNCHANGED <<waves, session, pc, frame, calls, out_data, sweep, osci, gen>>

\* next(g): from the start to the first yield, or from one yield to the next,
\* or to the end of the loop
ChunksNext ==
    /\ chunks.pc \in {"created", "suspended"}
    /\ LET larr == Len(chunks.arr)
       IN  IF chunks.pc = "created" /\ yield_chunks_raises(larr, chunks.chunk_size)
           THEN chunks' = [chunks EXCEPT !.pc = "raised", !.exc = "ValueError"]
           ELSE IF chunks.cursor < larr
           THEN LET next_cursor == Min({chunks.cursor + chunks.chunk_size, larr})
                IN  chunks' = [chunks EXCEPT
                                  !.pc = "suspended",
                                  !.out = Append(@, Slice(chunks.arr, chunks.cursor,
                                                          next_cursor)),
                                  !.cursor = next_cursor]
           ELSE chunks' = [chunks EXCEPT !.pc = "done"]
    /\ UNCHANGED <<waves, session, pc, frame, calls, out_data, sweep, osci, gen>>

\* The caller drops the generator
ChunksDrop ==
    /\ chunks.pc \in {"done", "raised"}
    /\ chunks' = [pc |-> "none"]
    /\ UNCHANGED <<waves, session, pc, frame, calls, out_data, sweep, osci, gen>>

NextChunks ==
    \/ /\ chunks.pc = "none"
       /\ \E arr \in Arrays, chunk_size \in ChunkSizes : YieldChunks(arr, chunk_size)
    \/ ChunksNext
    \/ ChunksDrop

SpecChunks == InitWave /\ [][NextChunks]_vars

\* ------------------------------------------- fwp_lab_instruments.py: Osci
\* A Python str is the sequence of its characters
UpperCase ==
    <<"A", "B", "C", "D", "E", "F", "G", "H", "I", "J", "K", "L", "M", "N", "O", "P", "Q", "R", "S", "T", "U", "V", "W", "X", "Y", "Z">>
LowerCase ==
    <<"a", "b", "c", "d", "e", "f", "g", "h", "i", "j", "k", "l", "m", "n", "o", "p", "q", "r", "s", "t", "u", "v", "w", "x", "y", "z">>

\* str.lower()
lower(str) ==
    [k \in DOMAIN str |->
        IF \E n \in DOMAIN UpperCase : UpperCase[n] = str[k]
        THEN LowerCase[CHOOSE n \in DOMAIN UpperCase : UpperCase[n] = str[k]]
        ELSE str[k]]

\* key in str
Contains(str, key) ==
    \E n \in 1..(Len(str) - Len(key) + 1) : SubSeq(str, n, n + Len(key) - 1) = key

\* the dict of re_config_measure, in the order it is written
measure_dic ==
    <<<<<<"m", "e", "a", "n">>, "MEAN">>,
       <<<<"m", "i", "n">>, "MINI">>,
       <<<<"m", "a", "x">>, "MAXI">>,
       <<<<"f", "r", "e", "q">>, "FREQ">>,
       <<<<"p", "e", "r">>, "PER">>,
       <<<<"r", "m", "s">>, "RMS">>,
       <<<<"p", "k", "2">>, "PK2">>,
       <<<<"a", "m", "p">>, "PK2">>,
       <<<<"p", "h">>, "PHA">>,
       <<<<"c", "r", "m", "s">>, "CRM">>,
       <<<<"c", "m", "e", "a", "n">>, "CMEAN">>,
       <<<<"r", "i", "s", "e">>, "RIS">>,
       <<<<"f", "a", "l", "l">>, "FALL">>,
       <<<<"l", "o", "w">>, "LOW">>,
       <<<<"h", "i", "g", "h">>, "HIGH">>>>

\* the loop 'for key, value in dic.items(): if key in str: option = value':
\* the last key that matches gives the value; None when no key matches and
\* the name is never bound
last_match(dic, str) ==
    LET hits == {n \in DOMAIN dic : Contains(str, dic[n][1])}
    IN  IF hits = {} THEN None
        ELSE <<dic[CHOOSE n \in hits : \A m \in hits : m <= n][2]>>

\* the measure_option re_config_measure works out; None when it is unbound
measure_option_of(measure_type) ==
    LET str == lower(measure_type)
    IN  IF Contains(str, <<"c">>)
        THEN IF Contains(str, <<"r", "m", "s">>) THEN <<"CRM">> ELSE <<"CMEAN">>
        ELSE last_match(measure_dic, str)

MeasureTypes ==
    {<<"m", "i", "n">>,
     <<"M", "i", "n">>,
     <<"m", "a", "x">>,
     <<"f", "r", "e", "q">>,
     <<"f", "r", "e", "q", "u", "e", "n", "c", "y">>,
     <<"p", "k", "2">>,
     <<"a", "m", "p", "l", "i", "t", "u", "d", "e">>,
     <<"r", "m", "s">>,
     <<"c", "r", "m", "s">>,
     <<"c", "m", "e", "a", "n">>,
     <<"M", "e", "a", "n">>,
     <<"v", "o", "l", "t", "s">>}
MeasureChannels == 1..3
InstrumentTypes == {"FREQ", "MINI", "PK2"}

\* osci = Osci(port) on an oscilloscope whose immediate measurement is set to
\* source CH<source> and type typ: config_measure is what check_config_measure
\* reads back, the digits of the source and the type
OsciNew(source, typ) ==
    /\ osci = None
    /\ osci' = [instrument     |-> [source |-> source, type |-> typ],
                config_measure |-> [Source |-> <<ToString(source)>>, Type |-> typ],
                called         |-> FALSE,
                measure_type   |-> <<>>,
                measure_ch     |-> 0,
                measure_option |-> None,
                written        |-> <<>>,
                queried        |-> None,
                exc            |-> ""]
    /\ UNCHANGED <<waves, session, pc, frame, calls, out_data, sweep, chunks, gen>>

\* osci.measure(measure_type, measure_ch).  re_config_measure works out
\* measure_option; when no key matched, reading it raises UnboundLocalError.
\* Then it calls the dict self.config_measure, 'self.config_measure('Source')',
\* a TypeError: nothing is written to the oscilloscope, nothing is queried,
\* and measure, which catches nothing, passes the exception on.
Measure(measure_type, measure_ch) ==
    /\ osci # None
    /\ LET measure_option == measure_option_of(measure_type)
       IN  osci' = [osci EXCEPT
                       !.called = TRUE,
                       !.measure_type = measure_type,
                       !.measure_ch = measure_ch,
                       !.measure_option = measure_option,
                       !.written = <<>>,
                       !.queried = None,
                       !.exc = IF measure_option = None THEN "UnboundLocalError"
                               ELSE "TypeError"]
    /\ UNCHANGED <<waves, session, pc, frame, calls, out_data, sweep, chunks, gen>>

NextOsci ==
    \/ \E source \in {1, 2}, typ \in InstrumentTypes : OsciNew(source, typ)
    \/ \E measure_type \in MeasureTypes, measure_ch \in MeasureChannels :
          Measure(measure_type, measure_ch)

SpecOsci == InitWave /\ [][NextOsci]_vars

\* -------------------------------------------- fwp_lab_instruments.py: Gen
\* output_frequency=1e3
DefaultFrequency == 1000

\* the dict of config_output, in the order it is written
output_dic ==
    <<<<<<"s", "i", "n">>, "SIN">>,
      <<<<"s", "q", "u">>, "SQU">>,
      <<<<"r", "a", "m">>, "RAMP">>,
      <<<<"l", "o", "r">>, "LOR">>,
      <<<<"s", "i", "n", "c">>, "SINC">>,
      <<<<"g", "a", "u">>, "GAUS">>>>

\* the output_form config_output works out; None when it is unbound
output_form_of(output_waveform) ==
    LET str == lower(output_waveform)
    IN  IF Contains(str, <<"c">>) THEN <<"SINC">> ELSE last_match(output_dic, str)

Digits == {"0", "1", "2", "3", "4", "5", "6", "7", "8", "9"}

\* re.findall(r"[-+]?\d*\.\d+|\d+", str)[0] on a str with no dot in it: the
\* first run of digits, None when there is none (IndexError)
first_number(str) ==
    LET ds == {n \in DOMAIN str : str[n] \in Digits}
    IN  IF ds = {} THEN None
        ELSE LET a == Min(ds)
                 b == CHOOSE n \in a..Len(str) :
                        /\ \A m \in a..n : m \in ds
                        /\ (n + 1) \notin ds
             IN  <<SubSeq(str, a, b)>>

\* gen.write of one command for one channel
Cmd(name, ch, v) == [cmd |-> name, ch |-> ch, v |-> v]

\* config_output(...): the commands it writes, in order, and the exception it
\* ends with.  An unbound output_form is read at 'if output_form not in
\* dic.values()'.  The ramp symmetry is formatted with '{}'; the duty cycle
\* with '{:.1f}', which a str does not take: a ValueError, and only IndexError
\* is caught.
config_output(output_waveform, output_frequency, output_amplitude, output_offset, output_phase, output_ch) ==
    LET ch == IF output_ch # 1 /\ output_ch # 2 THEN 1 ELSE output_ch
        output_form == output_form_of(output_waveform)
        aux == first_number(lower(output_waveform))
        shape == <<Cmd("SOUR:FUNC:SHAP", ch, output_form[1])>>
        symm == IF output_form = <<"RAMP">> /\ aux # None
                THEN <<Cmd("SOUR:FUNC:RAMP:SYMM", ch, aux[1])>>
                ELSE <<>>
        levels == <<Cmd("SOUR:VOLT:LEV:IMM:OFFS", ch, output_offset),
                    Cmd("SOUR:VOLT:LEV:IMM:AMPL", ch, output_amplitude),
                    Cmd("SOUR:FREQ", ch, output_frequency),
                    Cmd("SOUR:PHAS", ch, output_phase)>>
    IN  IF output_form = None
        THEN [written |-> <<>>, exc |-> "UnboundLocalError"]
        ELSE IF output_form = <<"SQU">> /\ aux # None
        THEN [written |-> shape, exc |-> "ValueError"]
        ELSE [written |-> shape \o symm \o levels, exc |-> ""]

OutputWaveforms ==
    {<<"s", "i", "n">>,
     <<"s", "q", "u">>,
     <<"s", "q", "u", "7", "5">>,
     <<"r", "a", "m">>,
     <<"r", "a", "m", "5", "0">>,
     <<"S", "i", "n", "c">>,
     <<"t", "r", "i">>,
     <<"g", "a", "u">>}
OutputChannels == 1..3

\* gen = Gen(port)
GenNew ==
    /\ gen = None
    /\ gen' = [called |-> FALSE, output |-> FALSE, output_waveform |-> <<>>,
               output_amplitude |-> 0, output_ch |-> 0, reconfig |-> FALSE,
               written |-> <<>>, exc |-> ""]
    /\ UNCHANGED <<waves, session, pc, frame, calls, out_data, sweep, chunks, osci>>

\* gen.output(output, output_waveform, output_amplitude=output_amplitude,
\* output_ch=output_ch, reconfig=reconfig), the rest left to its defaults;
\* written is what this call wrote to the generator
Output(output, output_waveform, output_amplitude, output_ch, reconfig) ==
    /\ gen # None
    /\ LET cfg == IF output /\ reconfig
                  THEN config_output(output_waveform, DefaultFrequency, output_amplitude,
                                     0, 0, output_ch)
                  ELSE [written |-> <<>>, exc |-> ""]
       IN  gen' = [called           |-> TRUE,
                   output           |-> output,
                   output_waveform  |-> output_waveform,
                   output_amplitude |-> output_amplitude,
                   output_ch        |-> output_ch,
                   reconfig         |-> reconfig,
                   written          |-> IF cfg.exc = ""
                                        THEN Append(cfg.written,
                                                    Cmd("OUTP:STAT", output_ch, output))
                                        ELSE cfg.written,
                   exc              |-> cfg.exc]
    /\ UNCHANGED <<waves, session, pc, frame, calls, out_data, sweep, chunks, osci>>

NextGen ==
    \/ GenNew
    \/ \E output \in BOOLEAN, output_waveform \in OutputWaveforms, output_amplitude \in Levels,
          output_ch \in OutputChannels, reconfig \in BOOLEAN :
          Output(output, output_waveform, output_amplitude, output_ch, reconfig)

SpecGen == InitWave /\ [][NextGen]_vars

\* ------------------------------------------------------------- properties
Started == pc \in {"suspended", "done", "raised"}

\* A wave the stream can play: positive frequency and a waveform that
\* evaluates
Playable(w) == w.frequency > 0 /\ ~evaluate_raises(w)

PlayableArg == arg # None /\ \A k \in DOMAIN arg.w : Playable(arg.w[k])

Continuous == pc # "none" /\ duration = None

Bounded == pc # "none" /\ duration # None

Ceil(a, b) == (a + b - 1) \div b

\* The sample of wave w at elapsed-sample index m
SampleAt(w, m) == evaluate(w, <<Rat(m, sampling_rate)>>)[1]

\* Samples per channel pulled so far
RECURSIVE TotalSamples(_)
TotalSamples(bufs) ==
    IF bufs = <<>> THEN 0 ELSE Len(Head(bufs)[1]) + TotalSamples(Tail(bufs))

\* C1: in every stream of playable waves, sample k of the n-th pulled buffer
\* of each channel is that channel's wave at time (n*buffer_size + k) /
\* sampling_rate; and a bounded stream of exactly one buffer's duration
\* has given that one buffer once it has been pulled.
C1_ExactSampleIndex ==
    (Started /\ PlayableArg) =>
        /\ \A n \in DOMAIN out : \A c \in DOMAIN out[n] : \A k \in DOMAIN out[n][c] :
              out[n][c][k] =
                 SampleAt(eval_wave_rows(nchannels, wave)[c], (n - 1) * buffer_size + (k - 1))
        /\ (Bounded /\ duration[1] * sampling_rate = buffer_size) => Len(out) = 1

\* The last sample of buffer b on channel c is signal[c][m] and the first of
\* buffer b2 is signal[c][m + 1]
FollowsOn(b, b2) ==
    /\ DOMAIN b = DOMAIN b2
    /\ \A c \in DOMAIN b :
          /\ b[c] # <<>>
          /\ b2[c] # <<>>
          /\ \E m \in 1..(Len(signal[c]) - 1) :
                /\ signal[c][m] = b[c][Len(b[c])]
                /\ signal[c][m + 1] = b2[c][1]

\* C2: in a continuous stream of playable waves every pull after the first
\* gives a buffer that starts with the sample following the last sample of
\* the buffer before it, also when the pull passes the end of the
\* precomputed signal.
C2_SeamContinuity ==
    [][(pc = "suspended" /\ Continuous /\ PlayableArg /\ pc' # "none") =>
          /\ pc' = "suspended"
          /\ Len(out') = Len(out) + 1
          /\ FollowsOn(out[Len(out)], out'[Len(out')])]_vars

\* C3: a bounded stream of positive duration, once pulled, does not raise,
\* never gives more than ceil(duration * sampling_rate / buffer_size)
\* buffers and has given exactly that many when it ends.
C3_BoundedBufferCount ==
    (Started /\ PlayableArg /\ Bounded /\ duration[1] > 0) =>
        /\ pc # "raised"
        /\ Len(out) <= Ceil(duration[1] * sampling_rate, buffer_size)
        /\ pc = "done" => Len(out) = Ceil(duration[1] * sampling_rate, buffer_size)

\* C4: a bounded stream of positive duration ends with duration *
\* sampling_rate samples per channel pulled in all, and never goes past
\* that.
C4_BoundedSampleCount ==
    (Started /\ PlayableArg /\ Bounded /\ duration[1] > 0) =>
        /\ TotalSamples(out) <= duration[1] * sampling_rate
        /\ pc # "suspended" => (pc = "done" /\ TotalSamples(out) = duration[1] * sampling_rate)

\* C5: a continuous stream of playable waves answers every pull with a
\* buffer: it neither ends nor raises.
C5_ContinuousNeverEnds ==
    (Started /\ PlayableArg /\ Continuous) => (pc = "suspended" /\ out # <<>>)

\* C6: a stream of zero or negative duration ends at the first pull, with
\* no buffer and no error.
C6_NonPositiveDurationEmpty ==
    (Started /\ PlayableArg /\ Bounded /\ duration[1] <= 0) => (pc = "done" /\ out = <<>>)

\* C7: for a single wave or a pair, and 1 or 2 channels, the tuple
\* resolve_nchannels returns has as many waves as there are channels.
C7_ResolvedArity ==
    (Started /\ nchannels \in {1, 2}) => Len(wave.w) = nchannels

\* C8: a single wave resolved for 2 channels is the 2-tuple of that wave
\* twice, and the two channels of the signal are the same.
C8_SingleDuplicated ==
    (Started /\ ~arg.tuple /\ nchannels = 2) =>
        /\ wave = Tuple(<<arg.w[1], arg.w[1]>>)
        /\ signal # <<>> => (Len(signal) = 2 /\ signal[1] = signal[2])

C8_Witness ==
    /\ Started /\ ~arg.tuple /\ nchannels = 2
    /\ wave = Tuple(<<arg.w[1], arg.w[1]>>)
    /\ Len(signal) = 2
    /\ Len(signal[1]) > 1
    /\ out # <<>>

\* C9: a pair of waves resolved for 1 channel is the 1-tuple of the first
\* wave of the pair.
C9_PairFirstOnly ==
    (Started /\ arg.tuple /\ Len(arg.w) = 2 /\ nchannels = 1) => wave = Tuple(<<arg.w[1]>>)

\* C10: no Wave object is built from an unrecognised name: none holds the
\* wrong_input stand-in for a generator.
C10_FailFast ==
    \A s \in Slots : waves[s] # None => waves[s][1].waveform # "wrong_input"

\* C11: every Wave object has a positive frequency.
C11_PositiveFrequency ==
    \A s \in Slots : waves[s] # None => waves[s][1].frequency > 0

\* C20: of a signal with N samples per channel, yield_a_bit gives
\* N \div buffer_size chunks, no more while it runs and exactly that many
\* when it has run out, chunk n being the buffer_size samples of every
\* channel from n * buffer_size on.
C20_ChunksBySamples ==
    (Started /\ PlayableArg /\ Continuous) =>
        /\ Len(out) <= Len(signal[1]) \div buffer_size
        /\ pc = "raised" => Len(out) = Len(signal[1]) \div buffer_size
        /\ \A n \in DOMAIN out : \A c \in DOMAIN signal :
              /\ Len(out[n][c]) = buffer_size
              /\ \A j \in 1..buffer_size : out[n][c][j] = signal[c][(n - 1) * buffer_size + j]

\* The samples fn(2*pi*time*frequency, p) * amplitude of wave w
Samples(w, fn, p, time) ==
    [k \in DOMAIN time |->
        [fn |-> fn, x |-> RatMul(time[k], w.frequency), p |-> p, a |-> w.amplitude]]

\* C12: every evaluate call on a 'custom' Wave built with a function returns
\* that function's samples for (time, frequency); every evaluate call on a
\* 'custom' Wave built without one ends in an error.
C12_CustomDelegates ==
    (waves[1] # None /\ waves[1][1].waveform = "create_custom") =>
        \A k \in DOMAIN calls :
            IF waves[1][1].customfunc # "None"
            THEN calls[k].ret =
                    Returned(Samples(waves[1][1], waves[1][1].customfunc, <<>>, calls[k].time))
            ELSE calls[k].ret.exc # ""

\* Calls with the same input have the same outcome
Functional(cs) ==
    \A j, k \in DOMAIN cs :
        (cs[j].time = cs[k].time /\ cs[j].args = cs[k].args) => cs[j].ret = cs[k].ret

\* C13: an evaluate call leaves the Wave object as it was, and the calls
\* made on it so far with the same input have returned the same samples.
C13_EvaluatePure ==
    [][Len(calls') = Len(calls) + 1 => (waves' = waves /\ Functional(calls'))]_vars

C13_Witness ==
    /\ Len(calls) = 2
    /\ calls[1].time = calls[2].time
    /\ calls[1].args = calls[2].args
    /\ calls[2].ret.exc = ""
    /\ Len(calls[2].ret.value) = 2
    /\ calls[1].ret = calls[2].ret

RampNames == {"sawtoothup", "ramp", "sawtooth", "sawtoothdown", "triangular"}

\* The symmetry each name of the ramp family stands for
RampSymmetry(n) ==
    CASE n \in {"sawtoothup", "ramp", "sawtooth"} -> <<1, 1>>
      [] n = "sawtoothdown"                       -> <<0, 1>>
      [] n = "triangular"                         -> <<1, 2>>

C15_Interleaved ==
    (pc = "returned" /\ nchannels \in {1, 2}) =>
        LET N == Len(signal[1])
            times == [k \in 1..N |->
                        Rat(signal[1][k].x[1], signal[1][k].x[2] * wave.w[1].frequency)]
            frame_k(c, k) == float32(signal[c][k + 1])
        IN  /\ Len(out_data) = N * nchannels
            /\ \A c \in 1..nchannels : signal[c] = evaluate(wave.w[c], times)
            /\ \A k \in 0..(N - 1) :
                  IF nchannels = 2
                  THEN /\ out_data[2 * k + 1] = frame_k(1, k)
                       /\ out_data[2 * k + 2] = frame_k(2, k)
                  ELSE out_data[k + 1] = frame_k(1, k)

C15_Witness ==
    /\ pc = "returned"
    /\ nchannels = 2
    /\ arg.tuple
    /\ arg.w[1] # arg.w[2]
    /\ Len(signal[1]) >= 2
    /\ Len(out_data) = 2 * Len(signal[1])
    /\ out_data[2] # out_data[1]

\* ------------------------------------------------------- frequency_sweep
SweepArray == sweep.pc # "none" /\ sweep.freqs_to_sweep.kind = "array"

SweepN == Len(sweep.freqs_to_sweep.v)

Scalar(x) == x.kind \in {"int", "float"}

\* x is a scalar or a sequence of one value per frequency
Fits(x) == Scalar(x) \/ Len(x.v) = SweepN

\* the value of argument x that belongs to step k
StepValue(x, k) == IF Scalar(x) THEN x.v ELSE x.v[k]

SweepPlayable == sweep.waveform \in {"sine", "square"}

\* C16: with an array of frequencies and a known waveform, scalar amplitude,
\* duration_per_freq and silence_between_freq (the integer defaults 1, 1, 0
\* included) are broadcast: the sweep never fails and, once exhausted, has
\* yielded one step per frequency.
C16_ScalarsBroadcast ==
    (/\ SweepArray
     /\ SweepPlayable
     /\ Scalar(sweep.amplitude)
     /\ Scalar(sweep.duration_per_freq)
     /\ Scalar(sweep.silence_between_freq)) =>
        /\ sweep.pc # "raised"
        /\ sweep.pc = "done" => Len(sweep.out) = SweepN

\* C17: when amplitude, duration_per_freq or silence_between_freq is a
\* sequence whose length differs from the number of frequencies, the first
\* next() fails and no step is ever yielded.
C17_MismatchRejected ==
    (/\ SweepArray
     /\ SweepPlayable
     /\ sweep.pc # "created"
     /\ ~(Fits(sweep.amplitude) /\ Fits(sweep.duration_per_freq)
            /\ Fits(sweep.silence_between_freq))) =>
        /\ sweep.pc = "raised"
        /\ sweep.out = <<>>

Zero == [fn |-> "zero", x |-> <<0, 1>>, p |-> <<>>, a |-> 0]

\* the silence that follows step k
Silence(k) ==
    [j \in 1..(StepValue(sweep.silence_between_freq, k) * sweep.sampling_freq) |-> Zero]

\* the first n tones as yielded, each followed by its silence
RECURSIVE TonesAndSilences(_)
TonesAndSilences(n) ==
    IF n = 0 THEN <<>> ELSE TonesAndSilences(n - 1) \o sweep.out[n] \o Silence(n)

\* C18: the samples the sweep has given are, step after step, the step's tone
\* and then its silence of zeros; the silence of step k stands before the tone
\* of step k+1, and after the last tone once the sweep is exhausted.
C18_ToneThenSilence ==
    (/\ SweepArray
     /\ Fits(sweep.amplitude) /\ Fits(sweep.duration_per_freq)
     /\ Fits(sweep.silence_between_freq)
     /\ sweep.pc \in {"suspended", "done"}
     /\ sweep.out # <<>>) =>
        LET n == Len(sweep.out)
            given == Flatten(sweep.out)
        IN  IF sweep.pc = "done"
            THEN given = TonesAndSilences(n)
            ELSE given \in {TonesAndSilences(n - 1) \o sweep.out[n], TonesAndSilences(n)}

\* C19: the k-th step has duration_per_freq[k] * sampling_freq samples, the
\* j-th of them (from 0) at phase j * freqs_to_sweep[k] / sampling_freq
\* whatever the earlier steps were, and all of them scaled by amplitude[k].
C19_StepShape ==
    (/\ SweepArray
     /\ Fits(sweep.amplitude) /\ Fits(sweep.duration_per_freq)
     /\ Fits(sweep.silence_between_freq)
     /\ sweep.pc \in {"suspended", "done"}) =>
        \A k \in 1..Len(sweep.out) :
            LET step == sweep.out[k]
            IN  /\ Len(step) = StepValue(sweep.duration_per_freq, k) * sweep.sampling_freq
                /\ \A j \in 1..Len(step) :
                      /\ step[j].x = Rat((j - 1) * sweep.freqs_to_sweep.v[k],
                                         sweep.sampling_freq)
                      /\ step[j].a = StepValue(sweep.amplitude, k)

\* ------------------------------------------------- channel independence
\* does write_signal(w, periods_per_chunk) raise, and the signal it evaluates
\* before encoding when it does not
write_signal_raises(w) ==
    LET rw == resolve_nchannels(nchannels, w)
    IN  rw.w[1].frequency = 0 \/ eval_wave_raises(nchannels, rw)

write_signal_rows(w, periods_per_chunk) ==
    LET rw == resolve_nchannels(nchannels, w)
    IN  eval_wave(nchannels, rw, create_time(sampling_rate, rw.w[1], periods_per_chunk))

\* the call with only the first wave's frequency changed to f
OtherFirstFrequency(w, f) == Tuple(<<[w.w[1] EXCEPT !.frequency = f], w.w[2]>>)

\* C21: for a pair of waves on two channels, the samples of the second channel
\* (their number and their instants) are those of any other call that differs
\* only in the frequency of the first wave.
C21_ChannelsIndependent ==
    (pc = "returned" /\ nchannels = 2 /\ arg.tuple) =>
        \A ppc \in PeriodsPerChunk :
            signal = write_signal_rows(arg, ppc) =>
                \A f \in Frequencies :
                    LET other == OtherFirstFrequency(arg, f)
                    IN  ~write_signal_raises(other) =>
                            write_signal_rows(other, ppc)[2] = signal[2]

\* ------------------------------------------------------------ yield_chunks
\* C22: with len(arr) >= chunk_size >= 1 the generator never raises; what it
\* has yielded is always the start of arr cut into chunks of chunk_size
\* elements, the last one alone being allowed fewer, never more than
\* ceil(len(arr) / chunk_size) of them; and when it ends it has yielded exactly
\* that many, arr in all.  With len(arr) < chunk_size the first next() raises
\* ValueError and nothing is yielded.
C22_ChunksCoverArray ==
    chunks.pc \in {"suspended", "done", "raised"} =>
        LET larr == Len(chunks.arr)
            n == Len(chunks.out)
            given == Flatten(chunks.out)
        IN  IF larr >= chunks.chunk_size
            THEN /\ chunks.pc # "raised"
                 /\ n <= Ceil(larr, chunks.chunk_size)
                 /\ Len(given) <= larr
                 /\ given = SubSeq(chunks.arr, 1, Len(given))
                 /\ \A k \in 1..n :
                       /\ Len(chunks.out[k]) \in 1..chunks.chunk_size
                       /\ k < n => Len(chunks.out[k]) = chunks.chunk_size
                 /\ chunks.pc = "suspended" /\ n < Ceil(larr, chunks.chunk_size)
                        => Len(chunks.out[n]) = chunks.chunk_size
                 /\ chunks.pc = "done" =>
                       /\ n = Ceil(larr, chunks.chunk_size)
                       /\ given = chunks.arr
            ELSE /\ chunks.pc = "raised"
                 /\ chunks.exc = "ValueError"
                 /\ chunks.out = <<>>

\* the generator has ended on an array that chunk_size does not divide
C22_Witness ==
    /\ chunks.pc = "done"
    /\ Len(chunks.arr) = MaxArr
    /\ chunks.chunk_size = MaxChunk
    /\ Len(chunks.out) = Ceil(MaxArr, MaxChunk)
    /\ Len(chunks.out[Len(chunks.out)]) < chunks.chunk_size

\* ------------------------------------------------------------------- Osci
\* the codes of the recognised keys that the requested type contains
KeyCodes ==
    {measure_dic[n][2] : n \in {m \in DOMAIN measure_dic :
                                   Contains(lower(osci.measure_type), measure_dic[m][1])}}

\* C23: a measure call with a recognised type on channel 1 or 2 does not fail,
\* and its value is queried while the oscilloscope's immediate measurement has
\* the source and the type of the request.
C23_MeasuredAsRequested ==
    (/\ osci # None
     /\ osci.called
     /\ KeyCodes # {}
     /\ osci.measure_ch \in {1, 2}) =>
        /\ osci.exc = ""
        /\ osci.queried # None
        /\ osci.queried[1].source = osci.measure_ch
        /\ osci.queried[1].type \in KeyCodes

\* C24: re_config_measure gives a type that contains recognised keys the code
\* of one of them, and a type that contains none the code FREQ, without
\* failing on the way to it.
C24_TypeMapping ==
    (osci # None /\ osci.called) =>
        IF KeyCodes # {}
        THEN osci.measure_option # None /\ osci.measure_option[1] \in KeyCodes
        ELSE osci.measure_option = <<"FREQ">> /\ osci.exc # "UnboundLocalError"

\* -------------------------------------------------------------------- Gen
\* C25: in every output call the on/off command is the last command written;
\* the commands before it are configuration commands, written only when output
\* and reconfig are both true, and they address the channel of the on/off
\* command.
C25_OnOffLast ==
    (gen # None /\ gen.called) =>
        LET n == Len(gen.written)
        IN  /\ n >= 1
            /\ gen.written[n].cmd = "OUTP:STAT"
            /\ \A k \in 1..(n - 1) :
                  /\ gen.written[k].cmd # "OUTP:STAT"
                  /\ gen.output /\ gen.reconfig
                  /\ gen.written[k].ch = gen.written[n].ch

=============================================================================
